---- MODULE Spec2Model ----
(***************************************************************************)
(* A model of scrub_invisible.py: the character filter, the collision-     *)
(* avoiding file name generator, and the file pipeline around them.        *)
(*                                                                         *)
(* Text is a sequence of Unicode code points.  The data of a file is a    *)
(* sequence of UTF-8 encoded scalar values, each written as its code       *)
(* point, where BadByte stands for a byte sequence that is not UTF-8.      *)
(* A path is the sequence of its dot-separated components, so that         *)
(* f"{p}.si" is Append(p, "si").  The file system maps the paths that      *)
(* have an entry to that entry: a regular file, a directory or a symbolic  *)
(* link.                                                                   *)
(***************************************************************************)
EXTENDS Integers, Sequences, FiniteSets, TLC

VARIABLES
    sys_argv,       \* sys.argv: the program name, then the arguments
    fs,             \* the file system: path -> entry
    linesep,        \* os.linesep of the platform: <<LF>> or <<CR, LF>>
    pc,             \* the statement the process is at
    content,        \* scrub_invisible: content
    cleaned,        \* scrub_invisible: cleaned
    removed_count,  \* scrub_invisible: removed_count
    base_output,    \* scrub_invisible: base_output
    counter,        \* get_unique_filename: counter
    new_filename,   \* scrub_invisible: new_filename
    stdout,         \* what print() has written
    fs0,            \* history: the file system when the process started
    steps,          \* history: the pipeline steps this process has attempted
    probed,         \* history: the counters get_unique_filename's loop probed
    hist            \* history: the processes that ended before this one

vars == <<sys_argv, fs, linesep, pc, content, cleaned, removed_count,
          base_output, counter, new_filename, stdout, fs0, steps, probed, hist>>

----------------------------------------------------------------------------
(* Bounds of the model.                                                    *)

MaxLen == 3         \* longest text the filter is given on its own
MaxFileLen == 2     \* longest data of the input file
MaxPre == 2         \* <input>.si and <input>.si.1 .. .si.MaxPre may pre-exist
MaxArgs == 2        \* most command-line arguments
MaxRuns == 3        \* most successive processes

----------------------------------------------------------------------------
(* Characters.                                                             *)

LF == 10
CR == 13
BadByte == -1

INVISIBLE_CHARS ==
    { 160, 8199, 8239, 8203, 8204, 8205, 8288, 65279, 6158,
      8289, 8290, 8291, 8292, 847, 4447, 4448, 12644, 65440 }

\* Code points the filter is tried on: A, space, LF, CR, and three of the
\* denylist (no-break space, zero-width space, BOM).
TextChars == {65, 32, LF, CR, 160, 8203, 65279}

\* What the input file is made of: A, LF, CR, no-break space, and an
\* ill-formed byte.
FileUnits == {65, LF, CR, 160, BadByte}

SeqsUpTo(S, n) == UNION {[1..k -> S] : k \in 0..n}

----------------------------------------------------------------------------
(* The filter, lines 84-85.                                                *)

\* Mutants of CleanedOf: one that takes other whitespace for invisible too,
\* and one that stops removing after the first invisible character.
CleanedOfStripsWhitespace(s) ==
    SelectSeq(s, LAMBDA c : c \notin INVISIBLE_CHARS \cup {32, LF, CR})

CleanedOfFirstOnly(s) ==
    IF \A i \in 1..Len(s) : s[i] \notin INVISIBLE_CHARS THEN s
    ELSE LET i == CHOOSE j \in 1..Len(s) :
                     /\ s[j] \in INVISIBLE_CHARS
                     /\ \A k \in 1..(j - 1) : s[k] \notin INVISIBLE_CHARS
         IN  SubSeq(s, 1, i - 1) \o SubSeq(s, i + 1, Len(s))

\* ''.join(c for c in content if c not in INVISIBLE_CHARS)
RECURSIVE CleanedOf(_)
CleanedOf(s) ==
    IF s = <<>> THEN <<>>
    ELSE IF Head(s) \notin INVISIBLE_CHARS
         THEN <<Head(s)>> \o CleanedOf(Tail(s))
         ELSE CleanedOf(Tail(s))

\* Mutant of RemovedCountOf: the number of distinct invisible characters.
RemovedCountDistinct(s) ==
    Cardinality({s[i] : i \in 1..Len(s)} \cap INVISIBLE_CHARS)

\* sum(1 for c in content if c in INVISIBLE_CHARS)
RECURSIVE RemovedCountOf(_)
RemovedCountOf(s) ==
    IF s = <<>> THEN 0
    ELSE (IF Head(s) \in INVISIBLE_CHARS THEN 1 ELSE 0) + RemovedCountOf(Tail(s))

----------------------------------------------------------------------------
(* Text files: open(..., 'r'/'w', encoding='utf-8') with the default       *)
(* newline=None.                                                           *)

\* Reading decodes UTF-8 (an ill-formed byte raises UnicodeDecodeError) ...
Decodable(data) == \A i \in 1..Len(data) : data[i] # BadByte

\* ... and translates the line endings \r\n and \r to \n.
RECURSIVE TranslateNewlinesRead(_)
TranslateNewlinesRead(s) ==
    IF s = <<>> THEN <<>>
    ELSE IF Head(s) = CR
         THEN IF Len(s) >= 2 /\ s[2] = LF
              THEN <<LF>> \o TranslateNewlinesRead(Tail(Tail(s)))
              ELSE <<LF>> \o TranslateNewlinesRead(Tail(s))
         ELSE <<Head(s)>> \o TranslateNewlinesRead(Tail(s))

ReadText(data) == TranslateNewlinesRead(data)

\* Writing translates every \n to os.linesep and encodes UTF-8.
RECURSIVE WriteText(_, _)
WriteText(s, sep) ==
    IF s = <<>> THEN <<>>
    ELSE (IF Head(s) = LF THEN sep ELSE <<Head(s)>>) \o WriteText(Tail(s), sep)

----------------------------------------------------------------------------
(* Paths and the file system.                                              *)

InputPath == <<"in">>
LinkTarget == <<"elsewhere">>

SiSuffix(p) == Append(p, "si")                   \* f"{file_path}.si"
Suffixed(p, n) == Append(p, ToString(n))         \* f"{base_path}.{counter}"

File(data) == [kind |-> "file", data |-> data, target |-> <<>>]
Dir == [kind |-> "dir", data |-> <<>>, target |-> <<>>]
Symlink(t) == [kind |-> "symlink", data |-> <<>>, target |-> t]

\* The path p names after following symbolic links; <<>> when the links loop.
RECURSIVE Follow(_, _, _)
Follow(f, p, n) ==
    IF p \notin DOMAIN f \/ f[p].kind # "symlink" THEN p
    ELSE IF n = 0 THEN <<>>
    ELSE Follow(f, f[p].target, n - 1)

Resolve(f, p) == Follow(f, p, Cardinality(DOMAIN f))

\* os.path.exists: os.stat(p) succeeds; False for a broken symbolic link.
Exists(f, p) == Resolve(f, p) \in DOMAIN f

\* Mutant of IsFile: anything that exists will do.
IsFileAnyKind(f, p) == Exists(f, p)

\* os.path.isfile: os.stat(p) succeeds and names a regular file.
IsFile(f, p) == Exists(f, p) /\ f[Resolve(f, p)].kind = "file"

\* f with the regular file at the place p names holding data.
PutFile(f, p, data) ==
    LET q == Resolve(f, p)
    IN  [x \in DOMAIN f \cup {q} |-> IF x = q THEN File(data) ELSE f[x]]

----------------------------------------------------------------------------
(* The states the program starts in.                                       *)

ProgramName == <<"scrub_invisible", "py">>
ArgPaths == {InputPath}
ArgvSet == {<<ProgramName>> \o args : args \in SeqsUpTo(ArgPaths, MaxArgs)}

OldData == <<65>>
NoEntry == [kind |-> "none", data |-> <<>>, target |-> <<>>]
OutKinds == {"none", "file", "symlink"}
OutEntry(k) ==
    CASE k = "file" -> File(OldData)
      [] k = "symlink" -> Symlink(LinkTarget)
      [] OTHER -> NoEntry

\* The candidates get_unique_filename has for <InputPath>.si.
Candidate(base, n) == IF n = 0 THEN base ELSE Suffixed(base, n)

\* A file system with inp at InputPath (nothing there when inp is NoEntry)
\* and an entry of kind outs[n] at the n-th candidate; LinkTarget has no
\* entry, so the links are broken.
MkFs(inp, outs) ==
    LET base == SiSuffix(InputPath)
        cand == {Candidate(base, n) : n \in DOMAIN outs}
        idx(p) == CHOOSE n \in DOMAIN outs : Candidate(base, n) = p
        used == {p \in cand : outs[idx(p)] # "none"}
        inps == IF inp = NoEntry THEN {} ELSE {InputPath}
    IN  [p \in inps \cup used |->
            IF p = InputPath THEN inp ELSE OutEntry(outs[idx(p)])]

InputEntries ==
    {NoEntry, Dir} \cup {File(d) : d \in SeqsUpTo(FileUnits, MaxFileLen)}

Locals ==
    /\ content = <<>>
    /\ cleaned = <<>>
    /\ removed_count = 0
    /\ base_output = <<>>
    /\ counter = 0
    /\ new_filename = <<>>
    /\ steps = <<>>
    /\ probed = <<>>

Init ==
    /\ sys_argv \in ArgvSet
    /\ linesep \in {<<LF>>, <<CR, LF>>}
    /\ \E inp \in InputEntries, outs \in [0..MaxPre -> OutKinds] :
          fs = MkFs(inp, outs)
    /\ fs0 = fs
    /\ pc = "main"
    /\ stdout = <<>>
    /\ hist = <<>>
    /\ Locals

----------------------------------------------------------------------------
(* __main__, lines 101-105.                                                *)

file_path == sys_argv[2]

\* Mutant of UsageError: only a missing argument is an error.
UsageErrorTooFew(argv) == Len(argv) < 2

UsageError(argv) == Len(argv) # 2

Main ==
    /\ pc = "main"
    /\ IF UsageError(sys_argv)
       THEN /\ stdout' = Append(stdout, [kind |-> "usage"])
            /\ pc' = "exit"
       ELSE /\ pc' = "validate"
            /\ UNCHANGED stdout
    /\ UNCHANGED <<sys_argv, fs, linesep, content, cleaned, removed_count,
                   base_output, counter, new_filename, fs0, steps, probed, hist>>

----------------------------------------------------------------------------
(* scrub_invisible, lines 68-99.                                           *)

\* lines 77-79
Validate ==
    /\ pc = "validate"
    /\ steps' = Append(steps, "validate")
    /\ IF ~IsFile(fs, file_path)
       THEN /\ stdout' = Append(stdout, [kind |-> "error", path |-> file_path])
            /\ pc' = "exit"
       ELSE /\ pc' = "read"
            /\ UNCHANGED stdout
    /\ UNCHANGED <<sys_argv, fs, linesep, content, cleaned, removed_count,
                   base_output, counter, new_filename, fs0, probed, hist>>

\* lines 81-82: the read succeeds, or open() raises OSError (no permission,
\* not a regular file), or f.read() raises UnicodeDecodeError.
ReadOk ==
    /\ IsFile(fs, file_path)
    /\ Decodable(fs[Resolve(fs, file_path)].data)
    /\ content' = ReadText(fs[Resolve(fs, file_path)].data)
    /\ pc' = "filter"

ReadDecodeError ==
    /\ IsFile(fs, file_path)
    /\ ~Decodable(fs[Resolve(fs, file_path)].data)
    /\ content' = content
    /\ pc' = "crashed"

ReadOSError ==
    /\ content' = content
    /\ pc' = "crashed"

ReadInput ==
    /\ pc = "read"
    /\ steps' = Append(steps, "read")
    /\ (ReadOk \/ ReadDecodeError \/ ReadOSError)
    /\ UNCHANGED <<sys_argv, fs, linesep, cleaned, removed_count, base_output,
                   counter, new_filename, stdout, fs0, probed, hist>>

\* lines 84-85
FilterStep ==
    /\ pc = "filter"
    /\ steps' = Append(steps, "filter")
    /\ cleaned' = CleanedOf(content)
    /\ removed_count' = RemovedCountOf(content)
    /\ pc' = "resolve"
    /\ UNCHANGED <<sys_argv, fs, linesep, content, base_output, counter,
                   new_filename, stdout, fs0, probed, hist>>

----------------------------------------------------------------------------
(* get_unique_filename, lines 47-66, called at line 90.                    *)

\* Mutant of FirstCounter: the suffixes start at 0.
FirstCounterZero == 1 - 1

FirstCounter == 1                       \* line 61

\* Mutant of NextCounter: the counter is not advanced.
NextCounterStuck(c) == c

NextCounter(c) == c + 1                 \* line 66

\* lines 89-90 and 58-61: the base path is returned if it does not exist.
ResolveBase ==
    /\ pc = "resolve"
    /\ steps' = Append(steps, "resolve")
    /\ base_output' = SiSuffix(file_path)
    /\ IF ~Exists(fs, base_output')
       THEN /\ new_filename' = base_output'
            /\ pc' = "open"
            /\ UNCHANGED counter
       ELSE /\ counter' = FirstCounter
            /\ pc' = "loop"
            /\ UNCHANGED new_filename
    /\ UNCHANGED <<sys_argv, fs, linesep, content, cleaned, removed_count,
                   stdout, fs0, probed, hist>>

\* lines 62-66: one iteration of the loop.
Probe ==
    /\ pc = "loop"
    /\ probed' = Append(probed, counter)
    /\ LET new_path == Suffixed(base_output, counter)
       IN  IF ~Exists(fs, new_path)
           THEN /\ new_filename' = new_path
                /\ pc' = "open"
                /\ UNCHANGED counter
           ELSE /\ counter' = NextCounter(counter)
                /\ pc' = "loop"
                /\ UNCHANGED new_filename
    /\ UNCHANGED <<sys_argv, fs, linesep, content, cleaned, removed_count,
                   base_output, stdout, fs0, steps, hist>>

----------------------------------------------------------------------------
(* scrub_invisible, lines 92-99.                                           *)

\* line 92: open(new_filename, 'w') creates the file, or truncates the one
\* the path names, or raises OSError and changes nothing.
OpenOk ==
    /\ Resolve(fs, new_filename) # <<>>
    /\ Exists(fs, new_filename) => IsFile(fs, new_filename)
    /\ fs' = PutFile(fs, new_filename, <<>>)
    /\ pc' = "write"

OpenOSError ==
    /\ fs' = fs
    /\ pc' = "crashed"

OpenOutput ==
    /\ pc = "open"
    /\ steps' = Append(steps, "write")
    /\ (OpenOk \/ OpenOSError)
    /\ UNCHANGED <<sys_argv, linesep, content, cleaned, removed_count,
                   base_output, counter, new_filename, stdout, fs0, probed, hist>>

\* line 93 and the end of the with block: the text reaches the file, or
\* OSError is raised (disk full) with only the start of it there.
WriteOk ==
    /\ fs' = PutFile(fs, new_filename, WriteText(cleaned, linesep))
    /\ pc' = "report"

\* Mutant of WriteOSError: the failure is swallowed and the run goes on.
WriteOSErrorSwallowed ==
    /\ \E k \in 0..(Len(WriteText(cleaned, linesep)) - 1) :
          fs' = PutFile(fs, new_filename, SubSeq(WriteText(cleaned, linesep), 1, k))
    /\ pc' = "report"

WriteOSError ==
    /\ \E k \in 0..(Len(WriteText(cleaned, linesep)) - 1) :
          fs' = PutFile(fs, new_filename, SubSeq(WriteText(cleaned, linesep), 1, k))
    /\ pc' = "crashed"

WriteCleaned ==
    /\ pc = "write"
    /\ (WriteOk \/ WriteOSError)
    /\ UNCHANGED <<sys_argv, linesep, content, cleaned, removed_count,
                   base_output, counter, new_filename, stdout, fs0, steps,
                   probed, hist>>

\* lines 96-99
Report ==
    /\ pc = "report"
    /\ steps' = Append(steps, "report")
    /\ stdout' = stdout \o
          << [kind |-> "original", text |-> content],
             [kind |-> "cleaned", text |-> cleaned],
             [kind |-> "count", count |-> removed_count],
             [kind |-> "saved", path |-> new_filename] >>
    /\ pc' = "exit"
    /\ UNCHANGED <<sys_argv, fs, linesep, content, cleaned, removed_count,
                   base_output, counter, new_filename, fs0, probed, hist>>

----------------------------------------------------------------------------
(* One process.                                                            *)

Done == pc \in {"exit", "crashed"}

Next ==
    \/ Main
    \/ Validate
    \/ ReadInput
    \/ FilterStep
    \/ ResolveBase
    \/ Probe
    \/ OpenOutput
    \/ WriteCleaned
    \/ Report

Spec == Init /\ [][Next]_vars

\* The interpreter runs the process until it returns or raises.
FairSpec == Spec /\ WF_vars(Next)

----------------------------------------------------------------------------
(* The filter on its own: lines 84-85 entered with any text.               *)

FilterInit ==
    /\ sys_argv = <<ProgramName, InputPath>>
    /\ linesep = <<LF>>
    /\ fs = MkFs(File(<<>>), [n \in 0..0 |-> "none"])
    /\ fs0 = fs
    /\ pc = "filter"
    /\ stdout = <<>>
    /\ hist = <<>>
    /\ content \in SeqsUpTo(TextChars, MaxLen)
    /\ cleaned = <<>>
    /\ removed_count = 0
    /\ base_output = <<>>
    /\ counter = 0
    /\ new_filename = <<>>
    /\ steps = <<"validate", "read">>
    /\ probed = <<>>

FilterNext == FilterStep

FilterSpec == FilterInit /\ [][FilterNext]_vars

----------------------------------------------------------------------------
(* Successive processes: the tool is run again after a process has ended,  *)
(* on a file system that starts with no <InputPath>.si* entry.             *)

CleanInit ==
    /\ sys_argv \in ArgvSet
    /\ linesep \in {<<LF>>, <<CR, LF>>}
    /\ \E inp \in InputEntries : fs = MkFs(inp, [n \in 0..0 |-> "none"])
    /\ fs0 = fs
    /\ pc = "main"
    /\ stdout = <<>>
    /\ hist = <<>>
    /\ Locals

\* What is kept of a process that has ended.
Ended ==
    [argv |-> sys_argv, end |-> pc, steps |-> steps, path |-> new_filename,
     cleaned |-> cleaned]

Rerun ==
    /\ Done
    /\ Len(hist) + 1 < MaxRuns
    /\ hist' = Append(hist, Ended)
    /\ sys_argv' \in ArgvSet
    /\ pc' = "main"
    /\ fs0' = fs
    /\ stdout' = <<>>
    /\ content' = <<>>
    /\ cleaned' = <<>>
    /\ removed_count' = 0
    /\ base_output' = <<>>
    /\ counter' = 0
    /\ new_filename' = <<>>
    /\ steps' = <<>>
    /\ probed' = <<>>
    /\ UNCHANGED <<fs, linesep>>

SeqNext == Next \/ Rerun

SeqSpec == CleanInit /\ [][SeqNext]_vars

----------------------------------------------------------------------------
(* Properties of the filter, checked under FilterSpec.                     *)

\* The positions of s whose character is not on the denylist.
Kept(s) == {i \in 1..Len(s) : s[i] \notin INVISIBLE_CHARS}

Filtered == pc = "resolve"

\* C1: the cleaned text is exactly the subsequence of the input made of the
\* characters that are not in INVISIBLE_CHARS, in their original order: the
\* n-th kept character of the input is the n-th character of the output,
\* nothing else is in the output, and no output character is denylisted.
C1_CleanedIsKeptSubsequence ==
    Filtered =>
        LET K == Kept(content)
        IN  /\ Len(cleaned) = Cardinality(K)
            /\ \A i \in K : cleaned[Cardinality({j \in K : j <= i})] = content[i]
            /\ \A n \in 1..Len(cleaned) : cleaned[n] \notin INVISIBLE_CHARS

\* A line feed and a space survive around a removed zero-width space.
C1_Witness ==
    /\ Filtered
    /\ content = <<LF, 8203, 32>>
    /\ cleaned = <<LF, 32>>

\* C2: len(cleaned) + removed_count = len(input), removed_count being the
\* number of occurrences of denylisted characters; empty input gives empty
\* output and 0, all-denylisted input gives empty output and len(input).
C2_LengthsAddUp ==
    Filtered =>
        /\ Len(cleaned) + removed_count = Len(content)
        /\ removed_count = Cardinality((1..Len(content)) \ Kept(content))
        /\ content = <<>> => cleaned = <<>> /\ removed_count = 0
        /\ Kept(content) = {} => cleaned = <<>> /\ removed_count = Len(content)

\* The same denylisted character twice counts twice.
C2_Witness ==
    /\ Filtered
    /\ content = <<160, 65, 160>>
    /\ removed_count = 2

\* C3: filtering the filtered text returns it unchanged with count 0, and a
\* text without denylisted characters is returned unchanged with count 0.
C3_Idempotent ==
    Filtered =>
        /\ CleanedOf(cleaned) = cleaned
        /\ RemovedCountOf(cleaned) = 0
        /\ Kept(content) = 1..Len(content) =>
              cleaned = content /\ removed_count = 0

\* Something was removed and something is left to filter again.
C3_Witness ==
    /\ Filtered
    /\ content = <<160, 8203, 65>>
    /\ cleaned = <<65>>

----------------------------------------------------------------------------
(* Properties of get_unique_filename.                                      *)

\* os.path.lexists: p has an entry of any kind, a broken link included.
HasEntry(f, p) == p \in DOMAIN f

\* get_unique_filename has returned and nothing has been written yet.
Resolved == pc = "open"

\* C4: get_unique_filename(P) returns P if no file system entry is at P, and
\* otherwise P.N for the smallest N >= 1 with no entry at P.N; no entry is
\* at the path returned.
C4_ReturnsFirstPathWithoutEntry ==
    Resolved =>
        /\ ~HasEntry(fs, base_output) => new_filename = base_output
        /\ HasEntry(fs, base_output) =>
              \E N \in 1..(Cardinality(DOMAIN fs) + 1) :
                  /\ new_filename = Suffixed(base_output, N)
                  /\ ~HasEntry(fs, Suffixed(base_output, N))
                  /\ \A k \in 1..(N - 1) : HasEntry(fs, Suffixed(base_output, k))
        /\ ~HasEntry(fs, new_filename)

\* What the code does instead: the same with os.path.exists, for which a
\* broken symbolic link is not there.
C4_ReturnsFirstPathNotExisting ==
    Resolved =>
        /\ ~Exists(fs, base_output) => new_filename = base_output
        /\ Exists(fs, base_output) =>
              \E N \in 1..(Cardinality(DOMAIN fs) + 1) :
                  /\ new_filename = Suffixed(base_output, N)
                  /\ \A k \in 1..(N - 1) : Exists(fs, Suffixed(base_output, k))
        /\ ~Exists(fs, new_filename)

\* C9: the loop probes the counters 1, 2, ... without repeating one, makes
\* at most (number of existing P.k) + 1 probes, found every candidate but
\* the last to exist, and returns the last, which it found not to exist.
ExistingSuffixes(f, base) ==
    {k \in 1..Cardinality(DOMAIN f) : Exists(f, Suffixed(base, k))}

C9_ProbesBounded ==
    /\ \A i \in 1..Len(probed) : probed[i] = i
    /\ pc = "loop" => counter = Len(probed) + 1
    /\ base_output # <<>> =>
          /\ Len(probed) <= Cardinality(ExistingSuffixes(fs0, base_output)) + 1
          /\ \A i \in 1..(Len(probed) - 1) :
                Exists(fs0, Suffixed(base_output, probed[i]))
    /\ pc \in {"open", "write", "report", "exit"} /\ probed # <<>> =>
          /\ new_filename = Suffixed(base_output, probed[Len(probed)])
          /\ ~Exists(fs0, new_filename)

\* C9, under FairSpec: and the loop is left.
C9_LoopTerminates == []C9_ProbesBounded /\ (pc = "loop" ~> pc = "open")

\* The loop returned at its third probe.
C9_Witness ==
    /\ pc = "open"
    /\ probed = <<1, 2, 3>>

----------------------------------------------------------------------------
(* Properties of the pipeline.                                             *)

FullPipeline == <<"validate", "read", "filter", "resolve", "write", "report">>

IsPrefix(a, b) == Len(a) <= Len(b) /\ SubSeq(b, 1, Len(a)) = a

\* The process ran the whole pipeline and returned.
Succeeded == pc = "exit" /\ steps = FullPipeline

\* The four lines of the report are on stdout.
Reported == \E i \in 1..Len(stdout) : stdout[i].kind = "saved"

\* p names no regular file: nothing, a directory, or a link to either.
NotRegularFile(f, p) ==
    LET q == Resolve(f, p) IN q \notin DOMAIN f \/ f[q].kind # "file"

\* The number of denylisted characters in s.
Occurrences(s) == Cardinality((1..Len(s)) \ Kept(s))

\* C5: a successful run creates exactly one new entry, at <input>.si or
\* <input>.si.<N>, a regular file holding the input with the denylisted
\* characters removed and nothing else changed; every entry there was
\* before is as it was; the report names that path and the number removed.
C5_CreatesOneFileWithFilteredInput ==
    Succeeded =>
        /\ DOMAIN fs \ DOMAIN fs0 = {new_filename}
        /\ \/ new_filename = SiSuffix(file_path)
           \/ \E N \in 1..Cardinality(DOMAIN fs) :
                 new_filename = Suffixed(SiSuffix(file_path), N)
        /\ fs[new_filename].kind = "file"
        /\ LET data == fs0[Resolve(fs0, file_path)].data
               K == Kept(data)
           IN  /\ Len(fs[new_filename].data) = Cardinality(K)
               /\ \A i \in K :
                     fs[new_filename].data[Cardinality({j \in K : j <= i})] = data[i]
        /\ \A p \in DOMAIN fs0 : fs[p] = fs0[p]
        /\ stdout[Len(stdout)] = [kind |-> "saved", path |-> new_filename]
        /\ stdout[Len(stdout) - 1] =
              [kind |-> "count",
               count |-> Occurrences(fs0[Resolve(fs0, file_path)].data)]

\* C5 on the file systems that hold no symbolic link, where the name
\* get_unique_filename returns has no entry.
NoSymlinks(f) == \A p \in DOMAIN f : f[p].kind # "symlink"

C5_WithoutSymlinks == NoSymlinks(fs0) => C5_CreatesOneFileWithFilteredInput

\* What a successful run does: it creates one regular file, at the place
\* the resolved name leads to, holding the filtered text of the input as
\* the text layer read and wrote it, and changes no entry there was before.
C5_WhatASuccessfulRunWrites ==
    Succeeded =>
        /\ DOMAIN fs \ DOMAIN fs0 = {Resolve(fs0, new_filename)}
        /\ fs[Resolve(fs0, new_filename)] =
              File(WriteText(CleanedOf(ReadText(fs0[Resolve(fs0, file_path)].data)),
                             linesep))
        /\ \A p \in DOMAIN fs0 : fs[p] = fs0[p]
        /\ stdout[Len(stdout)] = [kind |-> "saved", path |-> new_filename]

\* C7: when the input path names no regular file, scrub_invisible prints
\* the error and returns: nothing was read, no output path was resolved,
\* the file system is as it was, and no report was printed.
C7_InvalidInputOnlyReportsError ==
    (/\ Len(sys_argv) = 2
     /\ NotRegularFile(fs0, file_path)
     /\ pc \notin {"main", "validate"}) =>
        /\ pc = "exit"
        /\ stdout = <<[kind |-> "error", path |-> file_path]>>
        /\ fs = fs0
        /\ steps = <<"validate">>
        /\ content = <<>>
        /\ base_output = <<>>
        /\ new_filename = <<>>

\* The input path is a directory and the process has returned.
C7_Witness ==
    /\ Len(sys_argv) = 2
    /\ file_path \in DOMAIN fs0
    /\ fs0[file_path].kind = "dir"
    /\ pc = "exit"
    /\ stdout # <<>>

\* C8: with zero or with two or more arguments the program prints the usage
\* message and does nothing else: scrub_invisible is not called and the file
\* system is untouched.  With exactly one argument it calls scrub_invisible
\* once, on that argument, and prints no usage message.
C8_UsageUnlessOneArgument ==
    /\ (Len(sys_argv) # 2 /\ pc # "main") =>
          /\ pc = "exit"
          /\ stdout = <<[kind |-> "usage"]>>
          /\ steps = <<>>
          /\ fs = fs0
          /\ content = <<>>
          /\ new_filename = <<>>
    /\ (Len(sys_argv) = 2 /\ pc # "main") =>
          /\ steps = <<>> => pc = "validate"
          /\ IsPrefix(steps, FullPipeline)
          /\ \A i \in 1..Len(stdout) : stdout[i].kind # "usage"
          /\ base_output \in {<<>>, SiSuffix(sys_argv[2])}

\* Two arguments were given and the process has ended.
C8_Witness ==
    /\ Len(sys_argv) = 3
    /\ pc = "exit"
    /\ stdout = <<[kind |-> "usage"]>>

\* C10: the steps are attempted in the order validate, read, filter,
\* resolve, write, report, each at most once.  When the read fails, no
\* output path has been resolved and the file system is as it was.  The
\* report is printed only once the whole text is in the file, and a process
\* that failed has printed nothing.
C10_StepsInOrder ==
    /\ IsPrefix(steps, FullPipeline)
    /\ (pc = "crashed" /\ steps = <<"validate", "read">>) =>
          /\ fs = fs0
          /\ base_output = <<>>
          /\ new_filename = <<>>
    /\ Reported =>
          /\ steps = FullPipeline
          /\ pc = "exit"
          /\ fs[Resolve(fs, new_filename)] = File(WriteText(cleaned, linesep))
    /\ pc = "crashed" => stdout = <<>>

\* The read failed on an ill-formed byte.
C10_Witness ==
    /\ pc = "crashed"
    /\ steps = <<"validate", "read">>
    /\ ~Decodable(fs[file_path].data)

\* The write failed with part of the text in the new file.
C10_WitnessWriteFailed ==
    /\ pc = "crashed"
    /\ steps = <<"validate", "read", "filter", "resolve", "write">>
    /\ fs # fs0
    /\ fs[Resolve(fs, new_filename)].data # <<>>

----------------------------------------------------------------------------
(* Successive runs, checked under SeqSpec.                                 *)

\* The processes that have ended, the current one included.
Runs == IF Done THEN Append(hist, Ended) ELSE hist

RunOk(r) ==
    /\ r.argv = <<ProgramName, InputPath>>
    /\ r.end = "exit"
    /\ r.steps = FullPipeline

\* C6: when every run so far was a successful run on the input, the first
\* wrote <input>.si and the k-th wrote <input>.si.<k-1>, and all those files
\* hold the same cleaned text now, so that no later run changed an earlier
\* output.
C6_SuccessiveRunsNumberTheirOutputs ==
    (\A k \in 1..Len(Runs) : RunOk(Runs[k])) =>
        \A k \in 1..Len(Runs) :
            /\ Runs[k].path =
                  (IF k = 1 THEN SiSuffix(InputPath)
                   ELSE Suffixed(SiSuffix(InputPath), k - 1))
            /\ Runs[k].path \in DOMAIN fs
            /\ fs[Runs[k].path] = File(WriteText(Runs[k].cleaned, linesep))
            /\ fs[Runs[k].path] = fs[Runs[1].path]

\* Three successful runs have ended, each having removed something.
C6_Witness ==
    /\ Len(Runs) = 3
    /\ \A k \in 1..3 : RunOk(Runs[k])
    /\ removed_count > 0
    /\ cleaned # <<>>

====
